---- MODULE Spec2Model ----
(***************************************************************************)
(* Transport and connection management of the vhost-user AF_UNIX endpoint  *)
(* (lib/vhost/trans_af_unix.c).                                            *)
(*                                                                         *)
(* Three threads act on one endpoint ("self"): the control thread ("ctl":  *)
(* socket_start, socket_cleanup), the reactor thread ("reactor":           *)
(* fdset_event_dispatch running the accept and read callbacks) and the     *)
(* reconnect worker ("reconn": vhost_user_client_reconnect).  A second     *)
(* client endpoint ("other") owns an entry of the process-global reconnect *)
(* list; its peer never comes up.                                          *)
(*                                                                         *)
(* File descriptors are identities of open sockets: socket() and accept()  *)
(* hand out a fresh one each time, close() removes it from open_fds.       *)
(* Every statement that touches state shared between threads is one step.  *)
(***************************************************************************)
EXTENDS Integers, Sequences, FiniteSets, TLC

\* Number of sockets the process may create after endpoint_init (then EMFILE).
MaxFd == 3
\* Number of devices vhost_new_device can hand out (then it returns NULL).
MaxConn == 2

Threads == {"ctl", "reactor", "reconn"}
Fds == 0..(MaxFd + 1)
ConnIds == 1..MaxConn

VARIABLES
    is_server,      \* vsocket->is_server
    reconnect,      \* vsocket->reconnect
    socket_fd,      \* af_vsocket->socket_fd
    open_fds,       \* the process's open descriptors
    next_fd,        \* next descriptor identity socket()/accept() returns
    peer_up,        \* the peer of "self" is listening: connect() succeeds
    conn,           \* struct vhost_user_connection, by vid
    nconn,          \* devices handed out by vhost_new_device so far
    conn_list,      \* af_vsocket->conn_list
    conn_mutex,     \* af_vsocket->conn_mutex: holder, "free" or "destroyed"
    af_unix_fdset,  \* the reactor's slots {fd, rcb, dat, busy}
    remove,         \* the running callback's *remove out-parameter
    reconn_list,    \* reconn_list.head
    reconn_mutex,   \* reconn_list.mutex: holder or "free"
    rw_idx,         \* the reconnect worker's position in its walk
    pc,             \* each thread's position
    retpc,          \* where the thread continues when the callee returns
    arg_fd,         \* fd argument of start_client / add_connection
    lconn,          \* the thread's local conn pointer
    cleanup_done,   \* af_unix_socket_cleanup has returned
    sc_res,         \* per thread: vhost_user_start_client's connect result and return value
    slave_req_lock, \* conn->slave_req_lock: the holder, 0 when unlocked
    spc,            \* position of each thread using the slave channel
    smsg,           \* the slave request of each such thread
    sret,           \* last return value of send / process_reply per thread
    sreply,         \* what process_reply's read_vhost_message returned and stored
    inflight,       \* threads whose NEED_REPLY request awaits its reply
    mpc,            \* position of the thread running af_unix_map_mem_regions
    msg_mem,        \* the SET_MEM_TABLE message: payload.memory and flags
    msg_fds,        \* msg->fds[]
    iova_of,        \* rte_mem_virt2iova, by host page
    regions,        \* dev->mem->regions[]
    nregions,       \* dev->mem->nregions
    guest_pages,    \* dev->guest_pages, max_guest_pages
    fd_closes,      \* close() calls per region fd of the message
    postcopy,       \* the handshake: table sent, ack read, ranges registered
    mret,           \* return value of af_unix_map_mem_regions
    dev_flags,      \* dev->async_copy, dev->postcopy_listening
    rd_in,          \* what the socket delivers to one read_vhost_message
    rd_out          \* what read_vhost_message and vhost_user_read_cb made of it

epVars == <<is_server, reconnect, socket_fd>>
envVars == <<open_fds, next_fd, peer_up>>
connVars == <<conn, nconn, conn_list, conn_mutex>>
fdsetVars == <<af_unix_fdset, remove>>
reconnVars == <<reconn_list, reconn_mutex, rw_idx>>
ctrlVars == <<pc, retpc, arg_fd, lconn, cleanup_done, sc_res>>
slaveVars == <<slave_req_lock, spc, smsg, sret, sreply, inflight>>
memVars == <<mpc, msg_mem, msg_fds, iova_of, regions, nregions, guest_pages,
             fd_closes, postcopy, mret, dev_flags>>
rdVars == <<rd_in, rd_out>>
auxVars == <<memVars, rdVars>>
mainVars == <<epVars, envVars, connVars, fdsetVars, reconnVars, ctrlVars>>
vars == <<mainVars, slaveVars, auxVars>>

\* no SET_MEM_TABLE is being handled
MemIdle ==
    /\ mpc = "none"
    /\ msg_mem = <<>>
    /\ msg_fds = <<>>
    /\ iova_of = <<>>
    /\ regions = <<>>
    /\ nregions = 0
    /\ guest_pages = <<>>
    /\ fd_closes = <<>>
    /\ postcopy = <<>>
    /\ mret = 0
    /\ dev_flags = <<>>

\* no message is being read
ReadIdle ==
    /\ rd_in = <<>>
    /\ rd_out = <<>>

NoConn == [connfd |-> -1, device |-> "none", notified |-> FALSE, destroy_cb |-> 0,
           failed |-> FALSE]

----------------------------------------------------------------------------
(* FD reactor (fd_man): slots and their operations.                         *)

Slot(fd, rcb, dat) == [fd |-> fd, rcb |-> rcb, dat |-> dat, busy |-> FALSE]

SlotsOf(fd) == {s \in af_unix_fdset : s.fd = fd}

\* add(fd, read_cb, write_cb, user): a new slot
fdset_add(fd, rcb, dat) == af_unix_fdset \cup {Slot(fd, rcb, dat)}

\* try_del(fd) reports busy when the slot is executing a callback
fdset_busy(fd) == \E s \in SlotsOf(fd) : s.busy

\* del(fd) / try_del(fd) of an idle slot: the slot is removed
fdset_remove(fd) == af_unix_fdset \ SlotsOf(fd)

BusySlots == {s \in af_unix_fdset : s.busy}
BusySlot == CHOOSE s \in af_unix_fdset : s.busy

\* the running callback's arguments: (int connfd, void *dat)
cb_connfd == BusySlot.fd
cb_dat == BusySlot.dat

----------------------------------------------------------------------------
(* List helpers (TAILQ).                                                    *)

RECURSIVE SeqRemove(_, _)
SeqRemove(s, x) ==
    IF s = <<>> THEN <<>>
    ELSE IF Head(s) = x THEN Tail(s)
    ELSE <<Head(s)>> \o SeqRemove(Tail(s), x)

RemoveAt(s, i) == [j \in 1..(Len(s) - 1) |-> IF j < i THEN s[j] ELSE s[j + 1]]

InList(c) == \E i \in 1..Len(conn_list) : conn_list[i] = c

\* vhost_user_start_client has not run: no connect result, no return value
NoStart == [connect |-> 1, ret |-> 1]

Goto(t, l) == pc' = [pc EXCEPT ![t] = l]
Return(t) == pc' = [pc EXCEPT ![t] = retpc[t]]

----------------------------------------------------------------------------
Init ==
    /\ \E m \in {<<TRUE, FALSE>>, <<FALSE, FALSE>>, <<FALSE, TRUE>>} :
           /\ is_server = m[1]
           /\ reconnect = m[2]
    /\ socket_fd = 1
    /\ open_fds = {0, 1}
    /\ next_fd = 2
    /\ peer_up \in BOOLEAN
    /\ conn = [c \in ConnIds |-> NoConn]
    /\ nconn = 0
    /\ conn_list = <<>>
    /\ conn_mutex = "free"
    /\ af_unix_fdset = {}
    /\ remove = FALSE
    /\ reconn_list = <<[fd |-> 0, vsocket |-> "other"]>>
    /\ reconn_mutex = "free"
    /\ rw_idx = 0
    /\ pc = [t \in Threads |-> CASE t = "ctl" -> "registered"
                                 [] t = "reactor" -> "poll"
                                 [] t = "reconn" -> "rw_sleep"]
    /\ retpc = [t \in Threads |-> "none"]
    /\ arg_fd = [t \in Threads |-> -1]
    /\ lconn = [t \in Threads |-> 0]
    /\ cleanup_done = FALSE
    /\ sc_res = [t \in Threads |-> NoStart]
    /\ slave_req_lock = 0
    /\ spc = <<>>
    /\ smsg = <<>>
    /\ sret = <<>>
    /\ sreply = <<>>
    /\ inflight = {}
    /\ MemIdle
    /\ ReadIdle

----------------------------------------------------------------------------
(* Kernel calls.                                                            *)

\* close(fd): closing a descriptor that is not open fails with EBADF
close(fd) == open_fds' = open_fds \ {fd}

\* socket() / accept(): a fresh descriptor, or failure (EMFILE, ENOMEM, ...)
CanOpen == next_fd <= MaxFd

\* vhost_user_connect_nonblock: 0 connected, -1 retryable, -2 fatal.
\* connect() on a closed descriptor fails with EBADF, which is retryable (-1);
\* after a successful connect the fcntl calls may fail (-2).
vhost_user_connect_nonblock(fd) ==
    IF fd \notin open_fds THEN {-1}
    ELSE IF peer_up THEN {0, -2}
    ELSE {-1}

\* the environment: the peer of "self" starts or stops listening
PeerChange ==
    /\ ~is_server
    /\ peer_up' = ~peer_up
    /\ UNCHANGED <<epVars, open_fds, next_fd, connVars, fdsetVars, reconnVars,
                   ctrlVars, slaveVars, auxVars>>

----------------------------------------------------------------------------
(* vhost_user_add_connection(fd, vsocket), run by thread t.                 *)

\* a variant that goes on to register the fd although new_connection failed
AfterNewConnectionFailure_Registers == "ac_fdset"

\* if (ret < 0) { ...; goto err; } after new_connection
AfterNewConnectionFailure == "ac_err"

\* vhost_new_device and the user's new_connection callback; conn.failed
\* records that the install of this connection has failed
ac_new(t) ==
    /\ pc[t] = "ac_new"
    /\ \/ /\ Return(t)                       \* dev == NULL: plain return
          /\ UNCHANGED <<conn, nconn, lconn>>
       \/ /\ nconn < MaxConn
          /\ \E ok \in BOOLEAN :
                /\ nconn' = nconn + 1
                /\ conn' = [conn EXCEPT ![nconn + 1] =
                               [connfd |-> arg_fd[t], device |-> "alive",
                                notified |-> ok, destroy_cb |-> 0,
                                failed |-> ~ok]]
                /\ lconn' = [lconn EXCEPT ![t] = nconn + 1]
                /\ Goto(t, IF ok THEN "ac_fdset" ELSE AfterNewConnectionFailure)
    /\ UNCHANGED <<epVars, envVars, conn_list, conn_mutex, fdsetVars, reconnVars,
                   retpc, arg_fd, cleanup_done, sc_res, slaveVars, auxVars>>

\* the user's destroy_connection callback for vid c
destroy_connection(c) ==
    conn' = [conn EXCEPT ![c].destroy_cb = conn[c].destroy_cb + 1]

\* a variant that installs the connection although fdset_add failed
AfterFdsetAddFailure_Installs == "ac_insert"

\* if (ret < 0) { ...; goto err; }
AfterFdsetAddFailure == "ac_err"

\* fdset_add(&af_unix_fdset, fd, vhost_user_read_cb, NULL, conn)
ac_fdset(t) ==
    /\ pc[t] = "ac_fdset"
    /\ \/ /\ af_unix_fdset' = fdset_add(arg_fd[t], "read_cb", lconn[t])
          /\ Goto(t, "ac_insert")
          /\ UNCHANGED conn
       \/ /\ conn' = [conn EXCEPT                \* the fdset is full:
                         ![lconn[t]].destroy_cb = @ + 1,   \* destroy_connection
                         ![lconn[t]].failed = TRUE]
          /\ Goto(t, AfterFdsetAddFailure)
          /\ UNCHANGED af_unix_fdset
    /\ UNCHANGED <<epVars, envVars, nconn, conn_list, conn_mutex, remove,
                   reconnVars, retpc, arg_fd, lconn, cleanup_done, sc_res, slaveVars, auxVars>>

\* lock conn_mutex; TAILQ_INSERT_TAIL; unlock; fdset_pipe_notify
ac_insert(t) ==
    /\ pc[t] = "ac_insert"
    /\ conn_mutex \in {"free", "destroyed"}
    /\ conn_list' = Append(conn_list, lconn[t])
    /\ Return(t)
    /\ UNCHANGED <<epVars, envVars, conn, nconn, conn_mutex, fdsetVars,
                   reconnVars, retpc, arg_fd, lconn, cleanup_done, sc_res, slaveVars, auxVars>>

\* err: close(conn->connfd); vhost_destroy_device(dev->vid)
ac_err(t) ==
    /\ pc[t] = "ac_err"
    /\ close(conn[lconn[t]].connfd)
    /\ conn' = [conn EXCEPT ![lconn[t]].device = "destroyed"]
    /\ Return(t)
    /\ UNCHANGED <<epVars, next_fd, peer_up, nconn, conn_list, conn_mutex,
                   fdsetVars, reconnVars, retpc, arg_fd, lconn, cleanup_done, sc_res,
                   slaveVars, auxVars>>

----------------------------------------------------------------------------
(* create_unix_socket(vsocket) and vhost_user_start_client(vsocket).        *)

\* socket(); fcntl(O_NONBLOCK) for a client; socket_fd = fd.  On failure
\* socket_fd keeps its value.
create_unix_socket ==
    \/ /\ CanOpen
       /\ socket_fd' = next_fd
       /\ open_fds' = open_fds \cup {next_fd}
       /\ next_fd' = next_fd + 1
    \/ /\ UNCHANGED <<socket_fd, open_fds, next_fd>>

\* a start_client that retries every connect failure when reconnect is set
StartClientOutcome_RetriesFatal(ret) ==
    IF ret = 0 THEN "install"
    ELSE IF ~reconnect THEN "fail"
    ELSE "enqueue"

\* what start_client does with the result of the connect
StartClientOutcome(ret) ==
    IF ret = 0 THEN "install"
    ELSE IF ret = -2 \/ ~reconnect THEN "fail"
    ELSE "enqueue"

sc_connect(t) ==
    /\ pc[t] = "sc_connect"
    /\ \E ret \in vhost_user_connect_nonblock(socket_fd) :
          \/ /\ StartClientOutcome(ret) = "install"
             /\ arg_fd' = [arg_fd EXCEPT ![t] = socket_fd]
             /\ Goto(t, "ac_new")
             /\ sc_res' = [sc_res EXCEPT ![t] = [connect |-> ret, ret |-> 0]]
             /\ UNCHANGED open_fds
          \/ /\ StartClientOutcome(ret) = "fail"
             /\ close(socket_fd)
             /\ Return(t)
             /\ sc_res' = [sc_res EXCEPT ![t] = [connect |-> ret, ret |-> -1]]
             /\ UNCHANGED arg_fd
          \/ /\ StartClientOutcome(ret) = "enqueue"
             /\ \/ /\ arg_fd' = [arg_fd EXCEPT ![t] = socket_fd]
                   /\ Goto(t, "sc_enqueue")
                   /\ sc_res' = [sc_res EXCEPT ![t] = [connect |-> ret, ret |-> 0]]
                   /\ UNCHANGED open_fds
                \/ /\ close(socket_fd)          \* malloc failed
                   /\ Return(t)
                   /\ sc_res' = [sc_res EXCEPT ![t] = [connect |-> ret, ret |-> -1]]
                   /\ UNCHANGED arg_fd
    /\ UNCHANGED <<epVars, next_fd, peer_up, connVars, fdsetVars, reconnVars,
                   retpc, lconn, cleanup_done, slaveVars, auxVars>>

\* a variant of the enqueue that does not take reconn_list.mutex
EnqueueLockAcquired_Unlocked == TRUE

\* pthread_mutex_lock(&reconn_list.mutex) returns once the mutex is free
EnqueueLockAcquired == reconn_mutex = "free"

\* lock reconn_list.mutex; TAILQ_INSERT_TAIL; unlock; return 0
sc_enqueue(t) ==
    /\ pc[t] = "sc_enqueue"
    /\ EnqueueLockAcquired
    /\ reconn_list' = Append(reconn_list, [fd |-> arg_fd[t], vsocket |-> "self"])
    /\ Return(t)
    /\ UNCHANGED <<epVars, envVars, connVars, fdsetVars, reconn_mutex, rw_idx,
                   retpc, arg_fd, lconn, cleanup_done, sc_res, slaveVars, auxVars>>

----------------------------------------------------------------------------
(* Control thread: af_unix_socket_start.                                    *)

\* vhost_user_start_server: bind, listen, fdset_add of the listen fd; on any
\* failure close(fd) and return -1
vhost_user_start_server ==
    \/ /\ af_unix_fdset' = fdset_add(socket_fd, "server_new_connection", 0)
       /\ UNCHANGED open_fds
    \/ /\ close(socket_fd)
       /\ UNCHANGED af_unix_fdset

socket_start ==
    /\ pc["ctl"] = "registered"
    /\ \/ /\ is_server
          /\ vhost_user_start_server
          /\ Goto("ctl", "started")
          /\ UNCHANGED retpc
       \/ /\ ~is_server
          /\ retpc' = [retpc EXCEPT !["ctl"] = "started"]
          /\ Goto("ctl", "sc_connect")
          /\ UNCHANGED <<af_unix_fdset, open_fds>>
    /\ UNCHANGED <<epVars, next_fd, peer_up, connVars, remove, reconnVars,
                   arg_fd, lconn, cleanup_done, sc_res, slaveVars, auxVars>>

----------------------------------------------------------------------------
(* Reactor thread: fdset_event_dispatch and the two read callbacks.         *)

\* a readable slot is marked busy and its callback is invoked
Dispatch ==
    /\ pc["reactor"] = "poll"
    /\ \E s \in af_unix_fdset :
          /\ af_unix_fdset' = (af_unix_fdset \ {s}) \cup {[s EXCEPT !.busy = TRUE]}
          /\ Goto("reactor", s.rcb)
    /\ remove' = FALSE
    /\ UNCHANGED <<epVars, envVars, connVars, reconnVars, retpc, arg_fd, lconn,
                   cleanup_done, sc_res, slaveVars, auxVars>>

\* the callback returned: the slot is idle again, or removed when *remove is set
CallbackReturn ==
    /\ pc["reactor"] = "cb_ret"
    /\ af_unix_fdset' = IF remove THEN af_unix_fdset \ BusySlots
                        ELSE (af_unix_fdset \ BusySlots) \cup
                             {[s EXCEPT !.busy = FALSE] : s \in BusySlots}
    /\ Goto("reactor", "poll")
    /\ UNCHANGED <<epVars, envVars, connVars, remove, reconnVars, retpc, arg_fd,
                   lconn, cleanup_done, sc_res, slaveVars, auxVars>>

\* vhost_user_server_new_connection: accept, then add_connection
server_new_connection ==
    /\ pc["reactor"] = "server_new_connection"
    /\ \/ /\ CanOpen
          /\ open_fds' = open_fds \cup {next_fd}
          /\ next_fd' = next_fd + 1
          /\ arg_fd' = [arg_fd EXCEPT !["reactor"] = next_fd]
          /\ retpc' = [retpc EXCEPT !["reactor"] = "cb_ret"]
          /\ Goto("reactor", "ac_new")
       \/ /\ Goto("reactor", "cb_ret")          \* accept failed
          /\ UNCHANGED <<open_fds, next_fd, arg_fd, retpc>>
    /\ UNCHANGED <<epVars, peer_up, connVars, fdsetVars, reconnVars, lconn,
                   cleanup_done, sc_res, slaveVars, auxVars>>

\* vhost_user_read_cb: read_vhost_message and vhost_user_msg_handler; on a
\* read error, a closed peer or a handler failure: close(connfd), *remove = 1
read_cb ==
    /\ pc["reactor"] = "read_cb"
    /\ \/ /\ Goto("reactor", "cb_ret")
          /\ UNCHANGED <<open_fds, remove>>
       \/ /\ close(cb_connfd)
          /\ remove' = TRUE
          /\ Goto("reactor", "rc_destroy_cb")
    /\ UNCHANGED <<epVars, next_fd, peer_up, connVars, af_unix_fdset, reconnVars,
                   retpc, arg_fd, lconn, cleanup_done, sc_res, slaveVars, auxVars>>

\* whether the teardown starts a reconnection
ReadCbReconnects == reconnect

\* notify_ops->destroy_connection(vid), then the test of vsocket->reconnect
rc_destroy_cb ==
    /\ pc["reactor"] = "rc_destroy_cb"
    /\ destroy_connection(cb_dat)
    /\ Goto("reactor", IF ReadCbReconnects THEN "rc_create" ELSE "rc_remove")
    /\ UNCHANGED <<epVars, envVars, nconn, conn_list, conn_mutex, fdsetVars,
                   reconnVars, retpc, arg_fd, lconn, cleanup_done, sc_res, slaveVars, auxVars>>

\* create_unix_socket(vsocket), its result ignored; then start_client
rc_create ==
    /\ pc["reactor"] = "rc_create"
    /\ create_unix_socket
    /\ retpc' = [retpc EXCEPT !["reactor"] = "rc_remove"]
    /\ Goto("reactor", "sc_connect")
    /\ UNCHANGED <<is_server, reconnect, peer_up, connVars, fdsetVars, reconnVars,
                   arg_fd, lconn, cleanup_done, sc_res, slaveVars, auxVars>>

\* lock conn_mutex; TAILQ_REMOVE; unlock.  A connection that was registered
\* in the fd set but not yet inserted (its installer has not reached
\* TAILQ_INSERT_TAIL) has a NULL tqe_prev in its zero-filled device:
\* TAILQ_REMOVE stores through it and the process dies.
rc_remove ==
    /\ pc["reactor"] = "rc_remove"
    /\ conn_mutex \in {"free", "destroyed"}
    /\ IF InList(cb_dat)
       THEN /\ conn_list' = SeqRemove(conn_list, cb_dat)
            /\ Goto("reactor", "rc_destroy")
       ELSE /\ pc' = [t \in Threads |-> "segv"]
            /\ UNCHANGED conn_list
    /\ UNCHANGED <<epVars, envVars, conn, nconn, conn_mutex, fdsetVars, reconnVars,
                   retpc, arg_fd, lconn, cleanup_done, sc_res, slaveVars, auxVars>>

\* vhost_destroy_device(conn->device.vid)
rc_destroy ==
    /\ pc["reactor"] = "rc_destroy"
    /\ conn' = [conn EXCEPT ![cb_dat].device = "destroyed"]
    /\ Goto("reactor", "cb_ret")
    /\ UNCHANGED <<epVars, envVars, nconn, conn_list, conn_mutex, fdsetVars,
                   reconnVars, retpc, arg_fd, lconn, cleanup_done, sc_res, slaveVars, auxVars>>

----------------------------------------------------------------------------
(* Reconnect worker: vhost_user_client_reconnect.                           *)

\* the connect of a pending entry; the peer of "other" never comes up
ReconnConnect(e) ==
    IF e.vsocket = "self" THEN vhost_user_connect_nonblock(e.fd) ELSE {-1}

\* a variant of the walk that never installs a connected entry
ReconnOutcome_NeverInstalls(ret) ==
    IF ret = -2 THEN "close" ELSE "keep"

\* what the walk does with an entry, by the result of its connect
ReconnOutcome(ret) ==
    IF ret = -2 THEN "close"
    ELSE IF ret = -1 THEN "keep"
    ELSE "install"

\* pthread_mutex_lock(&reconn_list.mutex); reconn = TAILQ_FIRST
rw_lock ==
    /\ pc["reconn"] = "rw_sleep"
    /\ reconn_mutex = "free"
    /\ reconn_mutex' = "reconn"
    /\ rw_idx' = 1
    /\ Goto("reconn", "rw_walk")
    /\ UNCHANGED <<epVars, envVars, connVars, fdsetVars, reconn_list, retpc,
                   arg_fd, lconn, cleanup_done, sc_res, slaveVars, auxVars>>

\* one iteration of the walk, or its end: unlock and sleep(1)
rw_walk ==
    /\ pc["reconn"] = "rw_walk"
    /\ \/ /\ rw_idx > Len(reconn_list)
          /\ reconn_mutex' = "free"
          /\ rw_idx' = 0
          /\ Goto("reconn", "rw_sleep")
          /\ UNCHANGED <<open_fds, reconn_list, arg_fd, retpc>>
       \/ /\ rw_idx <= Len(reconn_list)
          /\ \E ret \in ReconnConnect(reconn_list[rw_idx]) :
                \/ /\ ReconnOutcome(ret) = "close"   \* close(fd); remove_fd
                   /\ close(reconn_list[rw_idx].fd)
                   /\ reconn_list' = RemoveAt(reconn_list, rw_idx)
                   /\ UNCHANGED <<reconn_mutex, rw_idx, pc, arg_fd, retpc>>
                \/ /\ ReconnOutcome(ret) = "keep"    \* continue
                   /\ rw_idx' = rw_idx + 1
                   /\ UNCHANGED <<open_fds, reconn_mutex, reconn_list, pc,
                                  arg_fd, retpc>>
                \/ /\ ReconnOutcome(ret) = "install" \* add_connection
                   /\ arg_fd' = [arg_fd EXCEPT !["reconn"] = reconn_list[rw_idx].fd]
                   /\ retpc' = [retpc EXCEPT !["reconn"] = "rw_remove"]
                   /\ Goto("reconn", "ac_new")
                   /\ UNCHANGED <<open_fds, reconn_mutex, reconn_list, rw_idx>>
    /\ UNCHANGED <<epVars, next_fd, peer_up, connVars, fdsetVars, lconn,
                   cleanup_done, sc_res, slaveVars, auxVars>>

\* remove_fd: TAILQ_REMOVE(&reconn_list.head, reconn, next); free(reconn)
rw_remove ==
    /\ pc["reconn"] = "rw_remove"
    /\ reconn_list' = RemoveAt(reconn_list, rw_idx)
    /\ Goto("reconn", "rw_walk")
    /\ UNCHANGED <<epVars, envVars, connVars, fdsetVars, reconn_mutex, rw_idx,
                   retpc, arg_fd, lconn, cleanup_done, sc_res, slaveVars, auxVars>>

----------------------------------------------------------------------------
(* Control thread: af_unix_socket_cleanup.                                  *)

\* index of the first pending entry of vsocket v, 0 when there is none
FirstReconn(v) ==
    IF \E i \in 1..Len(reconn_list) : reconn_list[i].vsocket = v
    THEN CHOOSE i \in 1..Len(reconn_list) :
             /\ reconn_list[i].vsocket = v
             /\ \A j \in 1..(i - 1) : reconn_list[j].vsocket # v
    ELSE 0

\* the first branch of the cleanup
CleanupEntry ==
    IF is_server THEN "cl_del"
    ELSE IF reconnect THEN "cl_remove_reconnect"
    ELSE "cl_lock"

socket_cleanup ==
    /\ pc["ctl"] \in {"registered", "started"}
    /\ Goto("ctl", CleanupEntry)
    /\ UNCHANGED <<epVars, envVars, connVars, fdsetVars, reconnVars, retpc,
                   arg_fd, lconn, cleanup_done, sc_res, slaveVars, auxVars>>

\* fdset_del(&af_unix_fdset, socket_fd): waits while the slot is busy
cl_del ==
    /\ pc["ctl"] = "cl_del"
    /\ ~fdset_busy(socket_fd)
    /\ af_unix_fdset' = fdset_remove(socket_fd)
    /\ Goto("ctl", "cl_close_listen")
    /\ UNCHANGED <<epVars, envVars, connVars, remove, reconnVars, retpc, arg_fd,
                   lconn, cleanup_done, sc_res, slaveVars, auxVars>>

\* close(socket_fd); unlink(path)
cl_close_listen ==
    /\ pc["ctl"] = "cl_close_listen"
    /\ close(socket_fd)
    /\ Goto("ctl", "cl_lock")
    /\ UNCHANGED <<epVars, next_fd, peer_up, connVars, fdsetVars, reconnVars,
                   retpc, arg_fd, lconn, cleanup_done, sc_res, slaveVars, auxVars>>

\* vhost_user_remove_reconnect(vsocket): the first entry of the endpoint is
\* removed and its fd closed, under reconn_list.mutex
vhost_user_remove_reconnect ==
    /\ pc["ctl"] = "cl_remove_reconnect"
    /\ reconn_mutex = "free"
    /\ IF FirstReconn("self") # 0
       THEN /\ reconn_list' = RemoveAt(reconn_list, FirstReconn("self"))
            /\ close(reconn_list[FirstReconn("self")].fd)
       ELSE UNCHANGED <<reconn_list, open_fds>>
    /\ Goto("ctl", "cl_lock")
    /\ UNCHANGED <<epVars, next_fd, peer_up, connVars, fdsetVars, reconn_mutex,
                   rw_idx, retpc, arg_fd, lconn, cleanup_done, sc_res, slaveVars, auxVars>>

\* again: pthread_mutex_lock(&af_vsocket->conn_mutex)
cl_lock ==
    /\ pc["ctl"] = "cl_lock"
    /\ conn_mutex = "free"
    /\ conn_mutex' = "ctl"
    /\ Goto("ctl", "cl_walk")
    /\ UNCHANGED <<epVars, envVars, conn, nconn, conn_list, fdsetVars, reconnVars,
                   retpc, arg_fd, lconn, cleanup_done, sc_res, slaveVars, auxVars>>

\* where the walk goes when fdset_try_del reports the slot busy
TryDelBusyTarget == "cl_lock"

\* one iteration of the walk: fdset_try_del(conn->connfd); busy: unlock and
\* goto again.  At the end of the list: unlock.
cl_walk ==
    /\ pc["ctl"] = "cl_walk"
    /\ \/ /\ conn_list = <<>>
          /\ conn_mutex' = "free"
          /\ Goto("ctl", "cl_mutex_destroy")
          /\ UNCHANGED <<af_unix_fdset, lconn>>
       \/ /\ conn_list # <<>>
          /\ fdset_busy(conn[Head(conn_list)].connfd)
          /\ conn_mutex' = "free"
          /\ Goto("ctl", TryDelBusyTarget)
          /\ UNCHANGED <<af_unix_fdset, lconn>>
       \/ /\ conn_list # <<>>
          /\ ~fdset_busy(conn[Head(conn_list)].connfd)
          /\ af_unix_fdset' = fdset_remove(conn[Head(conn_list)].connfd)
          /\ lconn' = [lconn EXCEPT !["ctl"] = Head(conn_list)]
          /\ Goto("ctl", "cl_close")
          /\ UNCHANGED conn_mutex
    /\ UNCHANGED <<epVars, envVars, conn, nconn, conn_list, remove, reconnVars,
                   retpc, arg_fd, cleanup_done, sc_res, slaveVars, auxVars>>

\* close(conn->connfd)
cl_close ==
    /\ pc["ctl"] = "cl_close"
    /\ close(conn[lconn["ctl"]].connfd)
    /\ Goto("ctl", "cl_unlink")
    /\ UNCHANGED <<epVars, next_fd, peer_up, connVars, fdsetVars, reconnVars,
                   retpc, arg_fd, lconn, cleanup_done, sc_res, slaveVars, auxVars>>

\* TAILQ_REMOVE(&af_vsocket->conn_list, conn, next)
cl_unlink ==
    /\ pc["ctl"] = "cl_unlink"
    /\ conn_list' = SeqRemove(conn_list, lconn["ctl"])
    /\ Goto("ctl", "cl_destroy_device")
    /\ UNCHANGED <<epVars, envVars, conn, nconn, conn_mutex, fdsetVars, reconnVars,
                   retpc, arg_fd, lconn, cleanup_done, sc_res, slaveVars, auxVars>>

\* vhost_destroy_device(conn->device.vid); next conn
cl_destroy_device ==
    /\ pc["ctl"] = "cl_destroy_device"
    /\ conn' = [conn EXCEPT ![lconn["ctl"]].device = "destroyed"]
    /\ Goto("ctl", "cl_walk")
    /\ UNCHANGED <<epVars, envVars, nconn, conn_list, conn_mutex, fdsetVars,
                   reconnVars, retpc, arg_fd, lconn, cleanup_done, sc_res, slaveVars, auxVars>>

\* pthread_mutex_destroy(&af_vsocket->conn_mutex); return
cl_mutex_destroy ==
    /\ pc["ctl"] = "cl_mutex_destroy"
    /\ conn_mutex' = "destroyed"
    /\ cleanup_done' = TRUE
    /\ Goto("ctl", "cleaned")
    /\ UNCHANGED <<epVars, envVars, conn, nconn, conn_list, fdsetVars, reconnVars,
                   retpc, arg_fd, lconn, sc_res, slaveVars, auxVars>>

----------------------------------------------------------------------------
(* Slave channel of one connection: af_unix_send_slave_req and              *)
(* af_unix_process_slave_message_reply, called by several threads (the      *)
(* message handler and the datapath).                                       *)

\* number of threads that send slave requests on the connection
NSenders == 2

Senders == 1..NSenders
SlaveRequests == {"IOTLB_MSG", "VRING_HOST_NOTIFIER_MSG"}

\* msg->flags & VHOST_USER_NEED_REPLY
NeedReply(m) == m.need_reply

\* a variant of send_slave_req that never takes the lock
SendLocks_Never(m) == FALSE

\* if (msg->flags & VHOST_USER_NEED_REPLY) rte_spinlock_lock(...)
SendLocks(m) == NeedReply(m)

\* a variant that keeps the lock when the send fails
SendFailureUnlocks_Never(ret, m) == FALSE

\* the send failed and the request carries NEED_REPLY: the lock is released
SendFailureUnlocks(ret, m) == ret < 0 /\ NeedReply(m)

\* rte_spinlock_unlock: the lock word is cleared, whoever holds it
rte_spinlock_unlock == slave_req_lock' = 0

\* a caller builds a slave request
SlaveCall(t) ==
    /\ spc[t] = "idle"
    /\ \E r \in SlaveRequests, nr \in BOOLEAN :
          smsg' = [smsg EXCEPT ![t] = [request |-> r, need_reply |-> nr]]
    /\ spc' = [spc EXCEPT ![t] = "send_lock"]
    /\ UNCHANGED <<mainVars, auxVars, slave_req_lock, sret, sreply, inflight>>

\* if (msg->flags & VHOST_USER_NEED_REPLY) rte_spinlock_lock(&slave_req_lock)
send_slave_req_lock(t) ==
    /\ spc[t] = "send_lock"
    /\ IF SendLocks(smsg[t])
       THEN /\ slave_req_lock = 0
            /\ slave_req_lock' = t
       ELSE UNCHANGED slave_req_lock
    /\ spc' = [spc EXCEPT ![t] = "send_msg"]
    /\ UNCHANGED <<mainVars, auxVars, smsg, sret, sreply, inflight>>

\* ret = send_fd_message(slave_req_fd, ...); unlock on failure; return ret
send_slave_req_send(t) ==
    /\ spc[t] = "send_msg"
    /\ \E ret \in {-1, 1} :
          /\ sret' = [sret EXCEPT ![t] = ret]
          /\ IF SendFailureUnlocks(ret, smsg[t])
             THEN rte_spinlock_unlock
             ELSE UNCHANGED slave_req_lock
          /\ inflight' = IF ret >= 0 /\ smsg[t].need_reply
                         THEN inflight \cup {t} ELSE inflight
    /\ spc' = [spc EXCEPT ![t] = "send_ret"]
    /\ UNCHANGED <<mainVars, auxVars, smsg, sreply>>

\* the caller: a failed send ends the request, otherwise the reply is
\* processed
SlaveCaller(t) ==
    /\ spc[t] = "send_ret"
    /\ spc' = [spc EXCEPT ![t] = IF sret[t] < 0 THEN "idle" ELSE "process_reply"]
    /\ UNCHANGED <<mainVars, auxVars, slave_req_lock, smsg, sret, sreply, inflight>>

\* read_vhost_message was not called
NoReply == [read |-> FALSE, rd |-> 0, request |-> "IOTLB_MSG", u64 |-> 0]

\* the result of process_slave_message_reply for a NEED_REPLY request, by
\* what read_vhost_message returned and what the reply holds.  After a read
\* of 0 (peer closed) msg_reply was never written: any content.
ReplyResult(rd, request, reply_request, u64) ==
    IF rd < 0 THEN -1
    ELSE IF reply_request # request THEN -1
    ELSE IF u64 # 0 THEN -1 ELSE 0

\* af_unix_process_slave_message_reply up to the label out.  rd is what
\* read_vhost_message returned: -1 an error, 0 the peer closed the slave
\* channel, 1 a message was read.  msg_reply is a local that nothing has
\* initialised: after rd <= 0 its fields hold whatever the stack held.
process_slave_message_reply(t) ==
    /\ spc[t] = "process_reply"
    /\ IF ~NeedReply(smsg[t])
       THEN /\ sret' = [sret EXCEPT ![t] = 0]
            /\ sreply' = [sreply EXCEPT ![t] = NoReply]
            /\ spc' = [spc EXCEPT ![t] = "idle"]
       ELSE /\ \E rd \in {-1, 0, 1}, rr \in SlaveRequests, u64 \in {0, 1} :
                  /\ sreply' = [sreply EXCEPT ![t] =
                                  [read |-> TRUE, rd |-> rd, request |-> rr,
                                   u64 |-> u64]]
                  /\ sret' = [sret EXCEPT ![t] =
                                  ReplyResult(rd, smsg[t].request, rr, u64)]
            /\ spc' = [spc EXCEPT ![t] = "reply_out"]
    /\ UNCHANGED <<mainVars, auxVars, slave_req_lock, smsg, inflight>>

\* out: rte_spinlock_unlock(&conn->slave_req_lock); return ret.  The local
\* msg_reply ends with the call.
process_slave_message_reply_out(t) ==
    /\ spc[t] = "reply_out"
    /\ rte_spinlock_unlock
    /\ inflight' = inflight \ {t}
    /\ sreply' = [sreply EXCEPT ![t] = NoReply]
    /\ spc' = [spc EXCEPT ![t] = "idle"]
    /\ UNCHANGED <<mainVars, auxVars, smsg, sret>>

SlaveInit ==
    /\ is_server = TRUE
    /\ reconnect = FALSE
    /\ socket_fd = 1
    /\ open_fds = {0, 1}
    /\ next_fd = 2
    /\ peer_up = FALSE
    /\ conn = [c \in ConnIds |-> NoConn]
    /\ nconn = 0
    /\ conn_list = <<>>
    /\ conn_mutex = "free"
    /\ af_unix_fdset = {}
    /\ remove = FALSE
    /\ reconn_list = <<>>
    /\ reconn_mutex = "free"
    /\ rw_idx = 0
    /\ pc = [t \in Threads |-> "none"]
    /\ retpc = [t \in Threads |-> "none"]
    /\ arg_fd = [t \in Threads |-> -1]
    /\ lconn = [t \in Threads |-> 0]
    /\ cleanup_done = FALSE
    /\ sc_res = [t \in Threads |-> NoStart]
    /\ slave_req_lock = 0
    /\ spc = [t \in Senders |-> "idle"]
    /\ smsg = [t \in Senders |-> [request |-> "IOTLB_MSG", need_reply |-> FALSE]]
    /\ sret = [t \in Senders |-> 0]
    /\ sreply = [t \in Senders |-> NoReply]
    /\ inflight = {}
    /\ MemIdle
    /\ ReadIdle

SlaveNext ==
    \/ \E t \in Senders : SlaveCall(t)
    \/ \E t \in Senders : send_slave_req_lock(t)
    \/ \E t \in Senders : send_slave_req_send(t)
    \/ \E t \in Senders : SlaveCaller(t)
    \/ \E t \in Senders : process_slave_message_reply(t)
    \/ \E t \in Senders : process_slave_message_reply_out(t)

SlaveSpec == SlaveInit /\ [][SlaveNext]_vars

----------------------------------------------------------------------------
(* Memory installer: af_unix_map_mem_regions with af_unix_mmap_region,      *)
(* af_unix_add_guest_pages and af_unix_postcopy_register, and               *)
(* af_unix_unmap_mem_regions.  Sizes and addresses are scaled down.         *)

\* regions a SET_MEM_TABLE message carries at most
MaxRegions == 2
\* host pages mmap can hand out
NVPages == 4
\* dev->max_guest_pages when the message arrives
InitMaxGuestPages == 2
\* the block size get_blk_size reports: the alignment and page size
PageSize == 2
\* uint64_t arithmetic is modulo U64
U64 == 16
VHOST_BINARY_SEARCH_THRESH == 256

Min(a, b) == IF a < b THEN a ELSE b

\* RTE_ALIGN_CEIL(val, align) in uint64_t
AlignCeil(val, align) == (((val + align - 1) % U64) \div align) * align

\* rte_mem_virt2iova of a host address inside a mapped page
rte_mem_virt2iova(a) == iova_of[a \div PageSize] * PageSize + (a % PageSize)

\* check records how far af_unix_mmap_region got with the region: "none" not
\* called, "overflow" rejected by its overflow check, "passed" past it
NoRegion == [fd |-> -1, guest_phys_addr |-> 0, size |-> 0, mmap_addr |-> 0,
             mmap_size |-> 0, host_user_addr |-> 0, check |-> "none"]

\* a variant that never merges
HostContiguous_Never(last_page, host_phys_addr) == FALSE

\* merge if the two pages are continuous
HostContiguous(last_page, host_phys_addr) ==
    host_phys_addr = last_page.host_phys_addr + last_page.size

\* af_unix_add_one_guest_page: grow the array when full (the realloc may
\* fail), merge with the last page when host-contiguous, else append
add_one_guest_page(gp, guest_phys_addr, host_phys_addr, size, realloc_ok) ==
    LET full == Len(gp.pages) = gp.max
        max2 == IF full THEN gp.max * 2 ELSE gp.max
        n == Len(gp.pages)
    IN  IF full /\ ~realloc_ok
        THEN [ret |-> -1, gp |-> [pages |-> <<>>, max |-> max2, null |-> TRUE]]
        ELSE IF n > 0 /\ HostContiguous(gp.pages[n], host_phys_addr)
        THEN [ret |-> 0,
              gp |-> [gp EXCEPT !.max = max2,
                                !.pages[n].size = gp.pages[n].size + size]]
        ELSE [ret |-> 0,
              gp |-> [gp EXCEPT !.max = max2,
                                !.pages = Append(gp.pages,
                                    [guest_phys_addr |-> guest_phys_addr,
                                     host_phys_addr |-> host_phys_addr,
                                     size |-> size])]]

\* the loop of af_unix_add_guest_pages: one page per iteration, the first
\* one up to the next page boundary of the guest physical address
RECURSIVE AddPages(_, _, _, _, _, _)
AddPages(gp, guest_phys_addr, host_user_addr, reg_size, first, realloc_ok) ==
    IF ~first /\ reg_size = 0 THEN [ret |-> 0, gp |-> gp]
    ELSE LET size == IF first
                     THEN Min(PageSize - (guest_phys_addr % PageSize), reg_size)
                     ELSE Min(reg_size, PageSize)
             r == add_one_guest_page(gp, guest_phys_addr,
                                     rte_mem_virt2iova(host_user_addr), size,
                                     realloc_ok)
         IN  IF r.ret < 0 THEN r
             ELSE AddPages(r.gp, guest_phys_addr + size, host_user_addr + size,
                           reg_size - size, FALSE, realloc_ok)

\* guest_page_addrcmp order
GuestPageBefore(a, b) == a.guest_phys_addr < b.guest_phys_addr

\* af_unix_add_guest_pages, with the qsort above the search threshold
add_guest_pages(gp, reg, realloc_ok) ==
    LET r == AddPages(gp, reg.guest_phys_addr, reg.host_user_addr, reg.size,
                      TRUE, realloc_ok)
    IN  IF r.ret = 0 /\ Len(r.gp.pages) >= VHOST_BINARY_SEARCH_THRESH
        THEN [r EXCEPT !.gp.pages = SortSeq(r.gp.pages, GuestPageBefore)]
        ELSE r

\* host pages that a mapping of mmap_size bytes can be given
FreeVPages(mmap_size) ==
    LET np == mmap_size \div PageSize
        used == UNION {(regions[i].mmap_addr \div PageSize)
                           .. ((regions[i].mmap_addr + regions[i].mmap_size - 1)
                                   \div PageSize) :
                       i \in {j \in 1..Len(regions) : regions[j].mmap_size > 0}}
    IN  {v \in 1..NVPages : v + np - 1 <= NVPages /\ (v..(v + np - 1)) \cap used = {}}

\* if (mmap_offset >= -region->size) in uint64_t
OverflowCheckRejects(size, mmap_offset) == mmap_offset >= (U64 - size) % U64

\* a variant that lets a round-up to 0 through
RoundUpRejected_Never(mmap_size) == FALSE

\* if (mmap_size == 0) after RTE_ALIGN_CEIL
RoundUpRejected(mmap_size) == mmap_size = 0

\* af_unix_mmap_region: every outcome {ret, region, guest pages} it can have
af_unix_mmap_region(reg, mmap_offset) ==
    LET fail(r) == [ret |-> -1, region |-> r, gp |-> guest_pages]
        past == [reg EXCEPT !.check = "passed"]
        mmap_size == AlignCeil((reg.size + mmap_offset) % U64, PageSize)
        mapped(v) == [past EXCEPT !.mmap_addr = v * PageSize,
                                  !.mmap_size = mmap_size,
                                  !.host_user_addr =
                                      (v * PageSize + mmap_offset) % U64]
    IN  IF OverflowCheckRejects(reg.size, mmap_offset)
        THEN {fail([reg EXCEPT !.check = "overflow"])}
        ELSE {fail(past)}                   \* get_blk_size failed
             \cup
             (IF RoundUpRejected(mmap_size) THEN {fail(past)}
              ELSE {fail(past)}             \* mmap returned MAP_FAILED
                   \cup
                   UNION {IF dev_flags.async_copy
                          THEN {LET g == add_guest_pages(guest_pages, mapped(v), ok)
                                IN  [ret |-> g.ret, region |-> mapped(v),
                                     gp |-> g.gp] : ok \in BOOLEAN}
                          ELSE {[ret |-> 0, region |-> mapped(v),
                                 gp |-> guest_pages]}
                          : v \in FreeVPages(mmap_size)})

\* one iteration of the loop of af_unix_map_mem_regions, or its end
map_region ==
    /\ mpc = "map"
    /\ IF nregions = msg_mem.nregions
       THEN /\ mpc' = "postcopy"
            /\ UNCHANGED <<msg_fds, regions, nregions, guest_pages, mret>>
       ELSE LET i == nregions + 1
                reg == [NoRegion EXCEPT
                           !.guest_phys_addr = msg_mem.regions[i].guest_phys_addr,
                           !.size = msg_mem.regions[i].memory_size,
                           !.fd = msg_fds[i]]
            IN  /\ msg_fds' = [msg_fds EXCEPT ![i] = -1]
                /\ \E o \in af_unix_mmap_region(reg, msg_mem.regions[i].mmap_offset) :
                      /\ regions' = [regions EXCEPT ![i] = o.region]
                      /\ guest_pages' = o.gp
                      /\ IF o.ret < 0
                         THEN /\ mret' = -1
                              /\ mpc' = "returned"
                              /\ UNCHANGED nregions
                         ELSE /\ nregions' = nregions + 1
                              /\ UNCHANGED <<mpc, mret>>
    /\ UNCHANGED <<mainVars, slaveVars, rdVars, msg_mem, iova_of, fd_closes, postcopy,
                   dev_flags>>

\* ack_msg before read_vhost_message
NoAck == [read |-> FALSE, rd |-> 0, request |-> "OTHER", fd_num |-> 0]

\* the ack of the peer as af_unix_postcopy_register judges it:
\* read_vhost_message <= 0, validate_msg_fds(&ack_msg, 0), the request code
AckResult(rd, request, fd_num) ==
    IF rd <= 0 THEN -1
    ELSE IF fd_num # 0 THEN -1
    ELSE IF request # "SET_MEM_TABLE" THEN -1
    ELSE 0

\* af_unix_postcopy_register up to af_unix_send_reply, whose result is not
\* looked at
postcopy_send ==
    /\ mpc = "postcopy"
    /\ IF ~dev_flags.postcopy_listening
       THEN /\ mret' = 0
            /\ mpc' = "returned"
            /\ UNCHANGED <<msg_mem, postcopy>>
       ELSE /\ msg_mem' = [msg_mem EXCEPT !.regions =
                              [i \in 1..msg_mem.nregions |->
                                  [msg_mem.regions[i] EXCEPT
                                      !.userspace_addr = regions[i].host_user_addr]]]
            /\ \E sent \in {"sent", "failed"} :
                  postcopy' = [postcopy EXCEPT !.sent = sent]
            /\ mpc' = "postcopy_ack"
            /\ UNCHANGED mret
    /\ UNCHANGED <<mainVars, slaveVars, rdVars, msg_fds, iova_of, regions, nregions,
                   guest_pages, fd_closes, dev_flags>>

\* read_vhost_message(main_fd, &ack_msg) and the validation of the ack
postcopy_ack ==
    /\ mpc = "postcopy_ack"
    /\ \E rd \in {-1, 0, 1}, request \in {"SET_MEM_TABLE", "OTHER"},
          fd_num \in {0, 1} :
          /\ postcopy' = [postcopy EXCEPT !.ack = [read |-> TRUE, rd |-> rd,
                                                   request |-> request,
                                                   fd_num |-> fd_num]]
          /\ IF AckResult(rd, request, fd_num) < 0
             THEN mret' = -1 /\ mpc' = "returned"
             ELSE mpc' = "postcopy_register" /\ UNCHANGED mret
    /\ UNCHANGED <<mainVars, slaveVars, rdVars, msg_mem, msg_fds, iova_of, regions,
                   nregions, guest_pages, fd_closes, dev_flags>>

\* one iteration of the registration loop (ioctl UFFDIO_REGISTER), or its end
postcopy_region_register ==
    /\ mpc = "postcopy_register"
    /\ LET i == Cardinality(postcopy.uffd) + 1
       IN  IF i > msg_mem.nregions
           THEN /\ mret' = 0
                /\ mpc' = "returned"
                /\ UNCHANGED postcopy
           ELSE \/ /\ postcopy' = [postcopy EXCEPT !.uffd = postcopy.uffd \cup {i}]
                   /\ UNCHANGED <<mpc, mret>>
                \/ /\ postcopy' = [postcopy EXCEPT !.reg_failed = TRUE]
                   /\ mret' = -1
                   /\ mpc' = "returned"
    /\ UNCHANGED <<mainVars, slaveVars, rdVars, msg_mem, msg_fds, iova_of, regions,
                   nregions, guest_pages, fd_closes, dev_flags>>

\* the descriptors the message carried
MsgFds == 1..msg_mem.nregions

\* close(fd) for each fd of the set
CloseAll(fds) == fd_closes' = [f \in MsgFds |->
                                  fd_closes[f] + (IF f \in fds THEN 1 ELSE 0)]

\* the caller closes the descriptors still in the message
close_msg_fds ==
    /\ mpc = "returned"
    /\ CloseAll({msg_fds[i] : i \in 1..Len(msg_fds)} \ {-1})
    /\ mpc' = "fds_closed"
    /\ UNCHANGED <<mainVars, slaveVars, rdVars, msg_mem, msg_fds, iova_of, regions,
                   nregions, guest_pages, postcopy, mret, dev_flags>>

\* af_unix_unmap_mem_regions
unmap_mem_regions ==
    /\ mpc = "fds_closed"
    /\ CloseAll({regions[i].fd : i \in {j \in 1..nregions :
                                          regions[j].host_user_addr # 0}})
    /\ mpc' = "unmapped"
    /\ UNCHANGED <<mainVars, slaveVars, rdVars, msg_mem, msg_fds, iova_of, regions,
                   nregions, guest_pages, postcopy, mret, dev_flags>>

RegionInputs == [guest_phys_addr : {0, 1, 4}, memory_size : {0, 1, 2, 4},
                 mmap_offset : {0, PageSize, U64 - 2}, userspace_addr : {0}]

IovaMaps == {[v \in 1..NVPages |-> v], [v \in 1..NVPages |-> NVPages + 1 - v]}

\* no endpoint activity
MainQuiescent ==
    /\ is_server = TRUE
    /\ reconnect = FALSE
    /\ socket_fd = 1
    /\ open_fds = {0, 1}
    /\ next_fd = 2
    /\ peer_up = FALSE
    /\ conn = [c \in ConnIds |-> NoConn]
    /\ nconn = 0
    /\ conn_list = <<>>
    /\ conn_mutex = "free"
    /\ af_unix_fdset = {}
    /\ remove = FALSE
    /\ reconn_list = <<>>
    /\ reconn_mutex = "free"
    /\ rw_idx = 0
    /\ pc = [t \in Threads |-> "none"]
    /\ retpc = [t \in Threads |-> "none"]
    /\ arg_fd = [t \in Threads |-> -1]
    /\ lconn = [t \in Threads |-> 0]
    /\ cleanup_done = FALSE
    /\ sc_res = [t \in Threads |-> NoStart]

\* no slave request
SlaveIdle ==
    /\ slave_req_lock = 0
    /\ spc = <<>>
    /\ smsg = <<>>
    /\ sret = <<>>
    /\ sreply = <<>>
    /\ inflight = {}

\* a SET_MEM_TABLE message arrives for a device without memory table
MemInit ==
    /\ MainQuiescent
    /\ SlaveIdle
    /\ \E n \in 0..MaxRegions :
          /\ \E rs \in [1..n -> RegionInputs] :
                msg_mem = [nregions |-> n, regions |-> rs]
          /\ msg_fds = [i \in 1..n |-> i]
          /\ fd_closes = [f \in 1..n |-> 0]
    /\ iova_of \in IovaMaps
    /\ dev_flags \in [async_copy : BOOLEAN, postcopy_listening : BOOLEAN]
    /\ regions = [i \in 1..MaxRegions |-> NoRegion]
    /\ nregions = 0
    /\ guest_pages = [pages |-> <<>>, max |-> InitMaxGuestPages, null |-> FALSE]
    /\ postcopy = [sent |-> "no", ack |-> NoAck, uffd |-> {}, reg_failed |-> FALSE]
    /\ mret = 0
    /\ mpc = "map"
    /\ ReadIdle

MemNext ==
    \/ map_region
    \/ postcopy_send
    \/ postcopy_ack
    \/ postcopy_region_register
    \/ close_msg_fds
    \/ unmap_mem_regions

MemSpec == MemInit /\ [][MemNext]_vars

----------------------------------------------------------------------------
(* Framed codec: read_fd_message and read_vhost_message, and what           *)
(* vhost_user_read_cb does with the result.  Sizes are scaled down.         *)

\* VHOST_USER_HDR_SIZE: request, flags, size
HdrSize == 3
\* sizeof(msg->payload)
PayloadCap == 2

\* what the peer and the kernel deliver: n bytes for the recvmsg of the
\* header (0 closed, -1 error), MSG_TRUNC | MSG_CTRUNC, the size field of the
\* header, the bytes the read of the payload can get (0 closed, -1 error),
\* the descriptors attached
ReadInputs == [n : -1..HdrSize, trunc : BOOLEAN, size : 0..(PayloadCap + 1),
               avail : -1..(PayloadCap + 1), nfds : 0..1]

\* read_fd_message: the recvmsg result unless the message was truncated
read_fd_message(in) ==
    IF in.n <= 0 THEN [ret |-> in.n, fd_num |-> 0]
    ELSE IF in.trunc THEN [ret |-> -1, fd_num |-> 0]
    ELSE [ret |-> in.n, fd_num |-> in.nfds]

\* the values msg->size can hold after the recvmsg: the field of the header
\* when all of it arrived, else whatever the caller's buffer held
SizeSeen(in) ==
    IF in.n = HdrSize THEN {in.size} ELSE 0..(PayloadCap + 1)

\* read(sockfd, &msg->payload, size)
ReadPayload(in, size) ==
    IF in.avail <= 0 THEN in.avail ELSE Min(in.avail, size)

\* read_vhost_message, msg->size being size
read_vhost_message(in, size) ==
    LET ret == read_fd_message(in).ret
    IN  IF ret <= 0 THEN ret
        ELSE IF size = 0 THEN ret
        ELSE IF size > PayloadCap THEN -1
        ELSE IF ReadPayload(in, size) <= 0 THEN ReadPayload(in, size)
        ELSE IF ReadPayload(in, size) # size THEN -1
        ELSE ReadPayload(in, size)

\* the descriptors that recvmsg installed in the process: those attached to
\* the message, or, when the control data was truncated, those that fitted
ReceivedFds(in) ==
    IF in.n <= 0 THEN {0}
    ELSE IF in.trunc THEN 0..in.nfds
    ELSE {in.nfds}

\* the descriptors of the message that the teardown of vhost_user_read_cb
\* closes: close(connfd) is its only close
TeardownClosesFds(received) == 0

\* vhost_user_read_cb: ret <= 0 tears down, else the handler gets the message
read_message ==
    /\ ~rd_out.done
    /\ \E size \in SizeSeen(rd_in), received \in ReceivedFds(rd_in) :
          LET ret == read_vhost_message(rd_in, size)
          IN  rd_out' = [done |-> TRUE, ret |-> ret, size |-> size,
                         fd_num |-> read_fd_message(rd_in).fd_num,
                         handled |-> ret > 0,
                         received |-> received,
                         closed |-> IF ret > 0 THEN 0
                                    ELSE TeardownClosesFds(received)]
    /\ UNCHANGED <<mainVars, slaveVars, memVars, rd_in>>

ReadInit ==
    /\ MainQuiescent
    /\ SlaveIdle
    /\ MemIdle
    /\ rd_in \in ReadInputs
    /\ rd_out = [done |-> FALSE, ret |-> 0, size |-> 0, fd_num |-> 0,
                 handled |-> FALSE, received |-> 0, closed |-> 0]

ReadNext == read_message

ReadSpec == ReadInit /\ [][ReadNext]_vars

----------------------------------------------------------------------------
Next ==
    \/ PeerChange
    \/ \E t \in Threads : ac_new(t)
    \/ \E t \in Threads : ac_fdset(t)
    \/ \E t \in Threads : ac_insert(t)
    \/ \E t \in Threads : ac_err(t)
    \/ \E t \in Threads : sc_connect(t)
    \/ \E t \in Threads : sc_enqueue(t)
    \/ socket_start
    \/ Dispatch
    \/ CallbackReturn
    \/ server_new_connection
    \/ read_cb
    \/ rc_destroy_cb
    \/ rc_create
    \/ rc_remove
    \/ rc_destroy
    \/ rw_lock
    \/ rw_walk
    \/ rw_remove
    \/ socket_cleanup
    \/ cl_del
    \/ cl_close_listen
    \/ vhost_user_remove_reconnect
    \/ cl_lock
    \/ cl_walk
    \/ cl_close
    \/ cl_unlink
    \/ cl_destroy_device
    \/ cl_mutex_destroy

Spec == Init /\ [][Next]_vars

\* The steps of each thread.  A callback that was invoked runs to its end,
\* the worker wakes up every second, a cleanup that was called runs on; a
\* thread waiting for a mutex gets it when it is released again and again.
\* Whether a descriptor becomes readable, and whether the user starts or
\* cleans the endpoint, is up to the environment.
ThreadStep(t) ==
    ac_new(t) \/ ac_fdset(t) \/ ac_insert(t) \/ ac_err(t) \/ sc_connect(t)
        \/ sc_enqueue(t)

ReactorStep ==
    \/ ThreadStep("reactor")
    \/ CallbackReturn \/ server_new_connection \/ read_cb \/ rc_destroy_cb
    \/ rc_create \/ rc_remove \/ rc_destroy

WorkerStep == ThreadStep("reconn") \/ rw_lock \/ rw_walk \/ rw_remove

CtlStep ==
    \/ ThreadStep("ctl")
    \/ cl_del \/ cl_close_listen \/ vhost_user_remove_reconnect \/ cl_lock
    \/ cl_walk \/ cl_close \/ cl_unlink \/ cl_destroy_device \/ cl_mutex_destroy

\* the walk of the cleanup gets past a connection whose slot is idle
CleanupProgress == cl_walk /\ pc'["ctl"] # "cl_lock"

FairSpec ==
    /\ Spec
    /\ SF_vars(ReactorStep)
    /\ SF_vars(WorkerStep)
    /\ SF_vars(CtlStep)
    /\ SF_vars(CleanupProgress)

----------------------------------------------------------------------------
(* State descriptions used by the properties.                               *)

\* the reactor is executing vhost_user_read_cb (any part of it)
ReadCbRunning == \E s \in af_unix_fdset : s.busy /\ s.rcb = "read_cb"

\* the read callback of connection c is executing
ReadCbRunningFor(c) ==
    \E s \in af_unix_fdset : s.busy /\ s.rcb = "read_cb" /\ s.dat = c

\* connection c's connfd is registered in the reactor's fd set
Registered(c) == \E s \in af_unix_fdset : s.fd = conn[c].connfd /\ s.dat = c

SelfEntries == {i \in 1..Len(reconn_list) : reconn_list[i].vsocket = "self"}

\* the step in which af_unix_socket_cleanup returns
CleanupReturns == ~cleanup_done /\ cleanup_done'

\* the step in which the reactor invokes a callback
CallbackInvoked == pc["reactor"] = "poll" /\ pc'["reactor"] # "poll"

----------------------------------------------------------------------------
\* C1: after af_unix_socket_cleanup has returned, the reactor never again
\* invokes a callback registered for the endpoint (all slots of the fd set
\* belong to the endpoint).
C1_NoCallbackAfterCleanup == [][cleanup_done => ~CallbackInvoked]_vars

\* C9: after af_unix_socket_cleanup has returned, the reconnect list holds
\* no entry of the endpoint.
C9_NoReconnectEntryAfterCleanup == cleanup_done => SelfEntries = {}

\* C3: the cleanup never closes the connfd of, unlinks or destroys the device
\* of a connection whose read callback is executing, and it does not return
\* while a read callback of one of the endpoint's connections is executing.
C3_NoTeardownUnderCallback ==
    pc["ctl"] \in {"cl_close", "cl_unlink", "cl_destroy_device"}
        => ~ReadCbRunningFor(lconn["ctl"])

C3_CleanupWaitsForCallbacks ==
    /\ []C3_NoTeardownUnderCallback
    /\ [][CleanupReturns => ~ReadCbRunning]_vars

\* C7: every connection whose new_connection succeeded and that has been
\* torn down got exactly one destroy_connection.
C7_DestroyConnectionOnce ==
    \A c \in ConnIds :
        /\ conn[c].destroy_cb <= 1
        /\ (conn[c].notified /\ conn[c].device = "destroyed")
               => conn[c].destroy_cb = 1

\* C6: every connection in the endpoint's list has its connfd registered in
\* the reactor's fd set.
C6_ListedImpliesRegistered ==
    \A i \in 1..Len(conn_list) : Registered(conn_list[i])

\* C8: a read_cb teardown starts a reconnection exactly when the endpoint is
\* a client with reconnect; the reconnection creates a fresh, open socket,
\* different from the connfd just closed, and ends with a reconnect entry
\* holding that socket appended to the pending list.
TeardownReconnectEnds ==
    /\ pc["reactor"] \in {"sc_connect", "sc_enqueue", "ac_new", "ac_fdset",
                          "ac_insert", "ac_err"}
    /\ retpc["reactor"] = "rc_remove"
    /\ pc'["reactor"] = "rc_remove"

FreshOpenSocket(fd) == fd \in open_fds' /\ fd # cb_connfd

C8_TeardownEnqueuesFreshSocket ==
    [][/\ (pc["reactor"] = "rc_destroy_cb" /\ pc'["reactor"] # "rc_destroy_cb")
          => (pc'["reactor"] = "rc_create" <=> (~is_server /\ reconnect))
       /\ (pc["reactor"] = "rc_create" /\ pc'["reactor"] # "rc_create")
          => FreshOpenSocket(socket_fd')
       /\ TeardownReconnectEnds
          => /\ FreshOpenSocket(socket_fd)
             /\ reconn_list' = Append(reconn_list,
                                      [fd |-> socket_fd, vsocket |-> "self"])
      ]_vars

\* C2: the cleanup does not deadlock: a busy slot makes it release
\* conn_mutex before the walk is retried, and once called it eventually
\* returns, with the connection list empty.
InCleanup == pc["ctl"] \in {"cl_del", "cl_close_listen", "cl_remove_reconnect",
                            "cl_lock", "cl_walk", "cl_close", "cl_unlink",
                            "cl_destroy_device", "cl_mutex_destroy"}

C2_BusyReleasesMutex ==
    [][(pc["ctl"] = "cl_walk" /\ pc'["ctl"] = "cl_lock") => conn_mutex' = "free"]_vars

\* (termination, for behaviours in which the slots of the endpoint are not
\* readable again and again forever while the walk is being retried)
C2_CleanupTerminates ==
    <>[](pc["reactor"] = "poll") => (InCleanup ~> cleanup_done)

\* every callback the reactor invoked returns (the read_cb teardown and the
\* accept callback are never blocked forever on conn_mutex or the reconnect
\* mutex)
C2_CallbacksReturn ==
    (pc["reactor"] # "poll") ~> (pc["reactor"] \in {"poll", "segv"})

C2_ReturnsWithEmptyList == [][CleanupReturns => conn_list' = <<>>]_vars

C2_CleanupNeverDeadlocks ==
    /\ C2_BusyReleasesMutex
    /\ C2_CleanupTerminates
    /\ C2_ReturnsWithEmptyList

\* C6 (amended): every connection in the endpoint's list has its connfd
\* registered in the reactor's fd set, except the connection the cleanup has
\* just taken out of the fd set and is about to unlink, conn_mutex held.
C6_ListedImpliesRegisteredOutsideCleanup ==
    \A i \in 1..Len(conn_list) :
        \/ Registered(conn_list[i])
        \/ /\ pc["ctl"] \in {"cl_close", "cl_unlink"}
           /\ lconn["ctl"] = conn_list[i]
           /\ conn_mutex = "ctl"

C6_Witness ==
    /\ pc["ctl"] = "cl_walk"
    /\ pc["reactor"] = "rc_remove"
    /\ InList(cb_dat)
    /\ cb_connfd \notin open_fds
    /\ Registered(cb_dat)

\* C4: per connection at most one NEED_REPLY slave request is in flight:
\* while one has been sent and its reply is not processed, every other
\* thread with a NEED_REPLY request is idle, waits for the lock, or returns
\* from a send that failed.
C4_OneNeedReplyInFlight ==
    /\ Cardinality(inflight) <= 1
    /\ \A t \in inflight : \A u \in Senders \ {t} :
           smsg[u].need_reply =>
               \/ spc[u] \in {"idle", "send_lock"}
               \/ spc[u] = "send_ret" /\ sret[u] < 0

C4_Witness ==
    \E t \in inflight : \E u \in Senders \ {t} :
        smsg[u].need_reply /\ spc[u] = "send_lock" /\ spc[t] = "process_reply"

\* C5: slave_req_lock is held by a thread exactly from its acquisition for a
\* NEED_REPLY request until the failed send or the end of the processing of
\* the reply: a thread whose send failed or whose reply was processed (any
\* result) does not hold it, and a request without NEED_REPLY never changes it.
C5_LockHeldExactlyForNeedReply ==
    \A t \in Senders :
        /\ t \in inflight => slave_req_lock = t
        /\ slave_req_lock = t
               => smsg[t].need_reply /\ (t \in inflight \/ spc[t] = "send_msg")
        /\ spc[t] = "idle" => slave_req_lock # t
        /\ (spc[t] = "send_ret" /\ sret[t] < 0) => slave_req_lock # t

C5_Witness ==
    \E t \in Senders : \E u \in Senders \ {t} :
        /\ spc[t] = "reply_out" /\ sret[t] = -1 /\ slave_req_lock = t
        /\ ~smsg[u].need_reply /\ spc[u] = "process_reply"

\* the pending list holds an entry of the endpoint for socket f
EntryFor(f) == \E i \in SelfEntries : reconn_list[i].fd = f

Pending(f) == EntryFor(f) /\ f \in open_fds

\* new_connection has been invoked for a connection on socket f
NewConnectionInvoked(f) == \E c \in 1..nconn : conn[c].connfd = f

CleanupCalled == InCleanup \/ cleanup_done

\* the worker takes an entry to the install only after a connect on it
\* succeeded, and drops an entry only after a connect on it did not fail
\* retryably
WorkerRemovesOnlyConnected(f) ==
    /\ (pc["reconn"] = "rw_walk" /\ pc'["reconn"] = "ac_new") => peer_up
    /\ (EntryFor(f) /\ ~EntryFor(f)' /\ pc["ctl"] # "cl_remove_reconnect")
           => \/ pc["reconn"] = "rw_remove"
              \/ pc["reconn"] = "rw_walk" /\ peer_up

\* the reconnect worker keeps being scheduled
WorkerRuns == [](pc["reconn"] # "segv")

----------------------------------------------------------------------------
\* the listening socket has its slot in the reactor's fd set
ListenRegistered ==
    \E s \in af_unix_fdset :
        s.fd = socket_fd /\ s.rcb = "server_new_connection"

\* C11: for a server endpoint, from af_unix_socket_init to the close in
\* af_unix_socket_cleanup, socket_fd is an open socket, and from the return
\* of af_unix_socket_start (also a failed one) to the fdset_del of the
\* cleanup it is registered in the reactor; so the cleanup never closes a
\* descriptor that is already closed.
C11_ListenSocketOpenAndRegistered ==
    is_server =>
        /\ pc["ctl"] \in {"registered", "started", "cl_del", "cl_close_listen"}
               => socket_fd \in open_fds
        /\ pc["ctl"] \in {"started", "cl_del"} => ListenRegistered

----------------------------------------------------------------------------
\* the ack that was read is a complete SET_MEM_TABLE message without fds
AckValidated ==
    /\ postcopy.ack.read
    /\ postcopy.ack.rd > 0
    /\ postcopy.ack.request = "SET_MEM_TABLE"
    /\ postcopy.ack.fd_num = 0

\* C12: a range is registered with userfault only after the rewritten table
\* has been sent and a validated ack has been read; without
\* postcopy_listening nothing is sent, read or registered.
C12_RegisterOnlyAfterAck ==
    /\ postcopy.uffd # {} => (postcopy.sent = "sent" /\ AckValidated)
    /\ ~dev_flags.postcopy_listening
           => (postcopy.sent = "no" /\ ~postcopy.ack.read /\ postcopy.uffd = {})

\* C20: with postcopy_listening, when the handshake was entered and any of
\* its steps failed (send of the table, read of the ack, ack with fds, ack
\* with another request, a registration), map_mem_regions returns failure.
C20_HandshakeFailureIsFatal ==
    (/\ mpc \in {"returned", "fds_closed", "unmapped"}
     /\ dev_flags.postcopy_listening
     /\ postcopy.sent # "no"
     /\ \/ postcopy.sent = "failed"
        \/ ~AckValidated
        \/ postcopy.reg_failed)
        => mret = -1

\* region descriptor f is still in msg->fds[]
InMessage(f) == \E i \in 1..Len(msg_fds) : msg_fds[i] = f

\* region descriptor f belongs to a region counted in dev->mem->nregions
InCountedRegion(f) == \E i \in 1..nregions : regions[i].fd = f

\* C14: every region descriptor of the message is either still in msg->fds[]
\* or in a counted region, never both, and after the message's descriptors
\* were closed and the regions unmapped each has been closed exactly once.
C14_RegionFdsClosedOnce ==
    /\ mpc \in {"map", "postcopy", "postcopy_ack", "postcopy_register", "returned"}
           => \A f \in MsgFds : InMessage(f) # InCountedRegion(f)
    /\ mpc = "unmapped" => \A f \in MsgFds : fd_closes[f] = 1

RECURSIVE SumSizes(_)
SumSizes(n) == IF n = 0 THEN 0 ELSE regions[n].size + SumSizes(n - 1)

\* the host-IOVA ranges of the installed regions are ranges and each starts
\* where the one before ends
IovaContiguous ==
    /\ \A i \in 1..nregions : \A d \in 0..(regions[i].size - 1) :
           rte_mem_virt2iova(regions[i].host_user_addr + d)
               = rte_mem_virt2iova(regions[i].host_user_addr) + d
    /\ \A i \in 1..(nregions - 1) :
           rte_mem_virt2iova(regions[i + 1].host_user_addr)
               = rte_mem_virt2iova(regions[i].host_user_addr) + regions[i].size

AllInstalled ==
    /\ mpc # "map"
    /\ nregions = msg_mem.nregions
    /\ nregions >= 1
    /\ dev_flags.async_copy

\* C13: after the installation with async_copy of regions whose host-IOVA
\* ranges are pairwise contiguous there is exactly one guest page, and its
\* size is the sum of the region sizes.
C13_ContiguousRegionsCoalesce ==
    (AllInstalled /\ IovaContiguous)
        => /\ Len(guest_pages.pages) = 1
           /\ guest_pages.pages[1].size = SumSizes(nregions)

\* two regions, the first one not page-aligned in guest physical space (three
\* pages), coalesced into one guest page
C13_Witness ==
    /\ AllInstalled /\ IovaContiguous
    /\ nregions = 2
    /\ regions[1].guest_phys_addr = 1
    /\ regions[1].size = 4
    /\ Len(guest_pages.pages) = 1
    /\ guest_pages.pages[1].size = 6

----------------------------------------------------------------------------
\* the peer delivered one complete message: the whole header, not truncated,
\* a size within the payload capacity and all the payload bytes
CompleteMessage ==
    /\ rd_in.n = HdrSize
    /\ ~rd_in.trunc
    /\ rd_in.size <= PayloadCap
    /\ rd_in.size > 0 => rd_in.avail >= rd_in.size

\* C15: read_vhost_message returns a positive result, and the handler is
\* invoked, only for a complete message: a short header, a truncated
\* message, an oversized size, a short payload or a closed peer yields a
\* result <= 0.
C15_PositiveOnlyForCompleteMessage ==
    rd_out.done => ((rd_out.ret > 0 \/ rd_out.handled) => CompleteMessage)

----------------------------------------------------------------------------
\* thread t is inside a user callback of vhost_user_add_connection:
\* new_connection, or destroy_connection after a failed fdset_add
InInstallCallback(t) == pc[t] \in {"ac_new", "ac_fdset"}

\* C16: no thread holds reconn_list.mutex while it runs a user callback, in
\* particular new_connection in vhost_user_add_connection.
C16_NoCallbackUnderReconnMutex ==
    \A t \in Threads : InInstallCallback(t) => reconn_mutex # t

----------------------------------------------------------------------------
(* vhost_user_start_client: what the step that connects, and the step that  *)
(* enqueues, do.                                                            *)

\* thread t takes the connect step of vhost_user_start_client
ConnectStep(t) == pc[t] = "sc_connect" /\ pc'[t] # "sc_connect"

\* the add-connection routine is entered with socket_fd, nothing is closed or
\* enqueued, and start_client returns 0
StartInstalls(t) ==
    /\ pc'[t] = "ac_new"
    /\ arg_fd'[t] = socket_fd
    /\ open_fds' = open_fds
    /\ reconn_list' = reconn_list
    /\ sc_res'[t].ret = 0

\* start_client goes on to append the entry for socket_fd, which it leaves
\* as it is, and returns 0
StartEnqueues(t) ==
    /\ pc'[t] = "sc_enqueue"
    /\ arg_fd'[t] = socket_fd
    /\ open_fds' = open_fds
    /\ reconn_list' = reconn_list
    /\ sc_res'[t].ret = 0

\* socket_fd is closed, nothing is enqueued, start_client returns -1
StartFails(t) ==
    /\ pc'[t] = retpc[t]
    /\ socket_fd \notin open_fds'
    /\ reconn_list' = reconn_list
    /\ sc_res'[t].ret = -1

\* the enqueue step appends exactly one entry, for the fd it was given, and
\* returns to the caller without closing anything
EnqueueAppendsOne(t) ==
    pc[t] = "sc_enqueue" /\ pc'[t] # "sc_enqueue" =>
        /\ reconn_list' = Append(reconn_list, [fd |-> arg_fd[t], vsocket |-> "self"])
        /\ open_fds' = open_fds
        /\ pc'[t] = retpc[t]
        /\ sc_res'[t] = sc_res[t]

\* C17: vhost_user_start_client has exactly three outcomes of its connect:
\* 0 installs the connection with the socket fd and returns success; -1 with
\* reconnect appends exactly one reconnect entry with the fd left open and
\* returns success, and without reconnect closes the fd, enqueues nothing and
\* returns failure; -2 closes the fd and returns failure.
C17_StartClientThreeOutcomes ==
    [][\A t \in Threads :
         /\ ConnectStep(t) =>
              LET r == sc_res'[t].connect IN
              /\ r \in {0, -1, -2}
              /\ r = 0 => StartInstalls(t)
              /\ r = -1 /\ reconnect => StartEnqueues(t)
              /\ r = -1 /\ ~reconnect => StartFails(t)
              /\ r = -2 => StartFails(t)
         /\ EnqueueAppendsOne(t)]_vars

\* C17 as the code has it: with connect = -1 and reconnect set, the entry is
\* appended and success returned, or, when the entry cannot be allocated, the
\* fd is closed, nothing is enqueued and failure is returned.
C17_StartClientOutcomes ==
    [][\A t \in Threads :
         /\ ConnectStep(t) =>
              LET r == sc_res'[t].connect IN
              /\ r \in {0, -1, -2}
              /\ r = 0 => StartInstalls(t)
              /\ r = -1 /\ reconnect => StartEnqueues(t) \/ StartFails(t)
              /\ r = -1 /\ ~reconnect => StartFails(t)
              /\ r = -2 => StartFails(t)
         /\ EnqueueAppendsOne(t)]_vars

\* a start_client with reconnect set has returned failure after a retryable
\* connect failure: the fd is closed and nothing was enqueued
C17_Witness ==
    /\ reconnect
    /\ pc["ctl"] = "started"
    /\ sc_res["ctl"] = [connect |-> -1, ret |-> -1]
    /\ socket_fd \notin open_fds
    /\ SelfEntries = {}

----------------------------------------------------------------------------
(* A failed install of a connection.                                        *)

\* the install of connection c failed after its device was allocated
InstallFailed(c) == conn[c].device # "none" /\ conn[c].failed

\* the process was killed by SIGSEGV: no thread runs any longer
Killed == \A t \in Threads : pc[t] = "segv"

\* thread t is on the error path of the install of c and has not yet run it
ErrPending(c) == \E t \in Threads : pc[t] = "ac_err" /\ lconn[t] = c

\* this step closes the connfd of connection c
ClosesConnfd(c) ==
    \/ \E t \in Threads : pc[t] = "ac_err" /\ lconn[t] = c /\ pc'[t] = retpc[t]
    \/ pc["reactor"] = "read_cb" /\ pc'["reactor"] = "rc_destroy_cb" /\ cb_dat = c
    \/ pc["ctl"] = "cl_close" /\ pc'["ctl"] # "cl_close" /\ lconn["ctl"] = c

\* this step destroys the device of connection c
DestroysDevice(c) ==
    \/ \E t \in Threads : pc[t] = "ac_err" /\ lconn[t] = c /\ pc'[t] = retpc[t]
    \/ pc["reactor"] = "rc_destroy" /\ pc'["reactor"] # "rc_destroy" /\ cb_dat = c
    \/ /\ pc["ctl"] = "cl_destroy_device" /\ pc'["ctl"] # "cl_destroy_device"
       /\ lconn["ctl"] = c

\* C18: a connection whose install failed after its device was allocated is
\* never in the endpoint's list, its fd is not registered in the reactor, and
\* its connfd is closed exactly once and its device destroyed exactly once:
\* by the error path, on an open fd and a live device, and by nothing else
\* (a process that was killed before the error path ran executes nothing).
C18_FailedInstallCleansUp ==
    /\ [](\A c \in ConnIds : InstallFailed(c) =>
             /\ ~InList(c)
             /\ ~Registered(c)
             /\ ErrPending(c) =>
                    conn[c].connfd \in open_fds /\ conn[c].device = "alive"
             /\ ~ErrPending(c) /\ ~Killed =>
                    conn[c].connfd \notin open_fds /\ conn[c].device = "destroyed")
    /\ [][\A c \in ConnIds : InstallFailed(c) =>
             /\ ClosesConnfd(c) =>
                    conn[c].connfd \in open_fds /\ conn[c].connfd \notin open_fds'
             /\ DestroysDevice(c) =>
                    conn[c].device = "alive" /\ conn'[c].device = "destroyed"]_vars

\* both failures have happened and their error paths have run
C18_Witness ==
    \E c, d \in ConnIds :
        /\ InstallFailed(c) /\ ~conn[c].notified /\ ~ErrPending(c)
        /\ InstallFailed(d) /\ conn[d].notified /\ ~ErrPending(d)
        /\ conn[c].device = "destroyed" /\ conn[d].device = "destroyed"

----------------------------------------------------------------------------
\* thread t leaves af_unix_process_slave_message_reply's body in this step
ProcessReplyStep(t) == spc[t] = "process_reply" /\ spc'[t] # "process_reply"

\* C19: process_slave_message_reply returns success without reading when the
\* request carries no NEED_REPLY; otherwise it returns success only if
\* read_vhost_message read a complete reply, the reply's request code is the
\* request's and its u64 payload is 0, and every read failure, the peer
\* closing the channel included, yields failure.
C19_ReplyDecidesResult ==
    [][\A t \in Senders : ProcessReplyStep(t) =>
          IF ~NeedReply(smsg[t])
          THEN sret'[t] = 0 /\ ~sreply'[t].read
          ELSE /\ sreply'[t].read
               /\ sret'[t] = 0 =>
                      /\ sreply'[t].rd > 0
                      /\ sreply'[t].request = smsg[t].request
                      /\ sreply'[t].u64 = 0
               /\ sreply'[t].rd <= 0 => sret'[t] = -1]_vars

----------------------------------------------------------------------------
\* mmap_offset + size of region i of the message, computed without
\* wrap-around, fits the word
SumFits(i) ==
    msg_mem.regions[i].memory_size + msg_mem.regions[i].mmap_offset < U64

\* af_unix_mmap_region has applied its overflow check to region i
OverflowChecked(i) == regions[i].check # "none"

\* C21: in unsigned arithmetic of the bounded word width, the overflow check
\* of af_unix_mmap_region lets a region pass exactly when mmap_offset + size,
\* computed without wrap-around, is below 2^width.
C21_OverflowCheckExact ==
    \A i \in 1..MaxRegions :
        OverflowChecked(i) => (regions[i].check = "passed" <=> SumFits(i))

----------------------------------------------------------------------------
\* region i was installed by a successful af_unix_mmap_region
Installed(i) == i <= nregions

\* C22: for every installed region, host_user_addr = mmap_addr + mmap_offset,
\* mmap_size is a multiple of the block size of the region's fd, and
\* mmap_size >= size + mmap_offset: a round-up that wraps to 0 is rejected
\* before mmap is called.
C22_InstalledRegionFields ==
    \A i \in 1..MaxRegions : Installed(i) =>
        /\ regions[i].host_user_addr =
               regions[i].mmap_addr + msg_mem.regions[i].mmap_offset
        /\ regions[i].mmap_size % PageSize = 0
        /\ regions[i].mmap_size >=
               regions[i].size + msg_mem.regions[i].mmap_offset

\* a region with a non-zero offset is installed and its size was rounded up
C22_Witness ==
    \E i \in 1..MaxRegions :
        /\ Installed(i)
        /\ msg_mem.regions[i].mmap_offset > 0
        /\ regions[i].mmap_size >
               regions[i].size + msg_mem.regions[i].mmap_offset

----------------------------------------------------------------------------
\* read_vhost_message failed and vhost_user_read_cb tore the connection down
\* without giving the message to the handler
ReadFailed == rd_out.done /\ rd_out.ret < 0 /\ ~rd_out.handled

\* C23: when read_vhost_message fails after descriptors were received with
\* the message (truncated message, oversized size field, short or failed
\* read of the payload), the teardown of vhost_user_read_cb leaves none of
\* them open: every received descriptor is closed.
C23_ReceivedFdsClosedOnError ==
    ReadFailed => rd_out.closed = rd_out.received

----------------------------------------------------------------------------
\* C24: on every teardown path and under every interleaving of the reactor,
\* the reconnect worker and the control thread, a connection's connfd is
\* never closed twice and its device never destroyed twice, the device is
\* destroyed only after the connection left the endpoint's list, and no
\* connection in the list refers to a destroyed device or to a closed fd.
C24_TeardownOnceAndListedIsLive ==
    /\ [](\A c \in ConnIds : InList(c) =>
             conn[c].device = "alive" /\ conn[c].connfd \in open_fds)
    /\ [][\A c \in ConnIds :
             /\ ClosesConnfd(c) => conn[c].connfd \in open_fds
             /\ DestroysDevice(c) => conn[c].device = "alive" /\ ~InList(c)]_vars

----------------------------------------------------------------------------
\* C25: the reconnect list never holds more than one entry of the endpoint,
\* whatever the interleaving of vhost_user_start_client, the worker that
\* turns an entry into a connection and the teardown of vhost_user_read_cb
\* that enqueues a reconnect.
C25_AtMostOneReconnectEntry == Cardinality(SelfEntries) <= 1

\* the read_cb teardown of a connection that the worker had made out of the
\* endpoint's first entry has enqueued the endpoint's next entry
C25_Witness ==
    /\ pc["reactor"] = "rc_remove"
    /\ sc_res["reactor"] = [connect |-> -1, ret |-> 0]
    /\ conn[cb_dat].connfd = arg_fd["reconn"]
    /\ Cardinality(SelfEntries) = 1

----------------------------------------------------------------------------
(* The guest-page index against the slices that were inserted into it.      *)

\* the slices (guest_phys_addr, host_phys_addr, size) that
\* af_unix_add_guest_pages hands to af_unix_add_one_guest_page for a region
RECURSIVE Slices(_, _, _, _)
Slices(guest_phys_addr, host_user_addr, reg_size, first) ==
    IF ~first /\ reg_size = 0 THEN {}
    ELSE LET size == IF first
                     THEN Min(PageSize - (guest_phys_addr % PageSize), reg_size)
                     ELSE Min(reg_size, PageSize)
         IN  {[guest_phys_addr |-> guest_phys_addr,
               host_phys_addr |-> rte_mem_virt2iova(host_user_addr),
               size |-> size]}
             \cup Slices(guest_phys_addr + size, host_user_addr + size,
                         reg_size - size, FALSE)

\* the slices of all installed regions
InsertedSlices ==
    UNION {Slices(regions[i].guest_phys_addr, regions[i].host_user_addr,
                  regions[i].size, TRUE) : i \in 1..nregions}

\* entry e of the index translates guest address g to host address h
Translates(e, g, h) ==
    /\ e.guest_phys_addr <= g
    /\ g < e.guest_phys_addr + e.size
    /\ e.host_phys_addr + (g - e.guest_phys_addr) = h

\* sum of the sizes of the entries of the index
RECURSIVE SumPages(_)
SumPages(pages) ==
    IF pages = <<>> THEN 0 ELSE Head(pages).size + SumPages(Tail(pages))

\* the guest-physical ranges of the installed regions do not overlap
GuestDisjoint ==
    \A i, j \in 1..nregions : i < j =>
        \/ regions[i].guest_phys_addr + regions[i].size
               <= regions[j].guest_phys_addr
        \/ regions[j].guest_phys_addr + regions[j].size
               <= regions[i].guest_phys_addr

\* C26: after region installs with async_copy (of regions that do not
\* overlap in guest-physical space), every address of every inserted slice
\* is translated by some entry of the guest-page index to the slice's host
\* address, and the entry sizes add up to the sizes of the installed
\* regions.
C26_GuestPageIndexTranslates ==
    (dev_flags.async_copy /\ ~guest_pages.null /\ GuestDisjoint) =>
        /\ \A s \in InsertedSlices : \A o \in 0..(s.size - 1) :
              \E k \in 1..Len(guest_pages.pages) :
                  Translates(guest_pages.pages[k], s.guest_phys_addr + o,
                             s.host_phys_addr + o)
        /\ SumPages(guest_pages.pages) = SumSizes(nregions)

====
